---- MODULE Spec2Model ----
(***************************************************************************)
(* The validator of commune/vali/vali.py: the epoch scheduler (Vali.epoch), *)
(* the evaluator (Vali.eval_module), the module info cache, the vote set     *)
(* builder (Vali.votes), the vote pipeline and loop, and set_network.        *)
(*                                                                         *)
(* Scores are Python floats in the code.  Here a score x is the integer     *)
(* x * Scale, with Scale a power of AlphaDen large enough that every blend  *)
(* the model can reach is exact: the model checks the arithmetic of the     *)
(* blend over the rationals, not the rounding of IEEE doubles.              *)
(***************************************************************************)
EXTENDS Integers, Sequences, FiniteSets, TLC

\* ------------------------------------------------------------------ bounds
MaxModules == 3
MaxBatch == 2
MaxTime == 2
MaxCalls == 2
EvalModules == 1
MaxRecords == 2
MaxKeys == 1
\* the largest score (in absolute value) handed to check_response on its own
MaxWeight == 15
\* the largest epochs count a worker is started with
MaxEpochs == 2
\* the largest config.print_interval of the epochs whose clock advances
MaxPrintInterval == 1
\* the largest config.workers
MaxWorkers == 2
\* the most chain submissions followed in the model of concurrent vote loops
MaxSubmits == 2
\* the threads followed statement by statement through eval_module
MaxThreads == 2
\* the largest config.max_age; the clock starts there, as c.time() (seconds since
\* 1970) is far beyond any configured max_age
MaxAge == 1

\* max_age = 1000, the default of module_infos
InfosMaxAge == 1000

\* alpha is config.alpha = a / AlphaDen
AlphaDen == 5

RECURSIVE Pow(_, _)
Pow(b, e) == IF e = 0 THEN 1 ELSE b * Pow(b, e - 1)

Max2(a, b) == IF a >= b THEN a ELSE b
Min2(a, b) == IF a <= b THEN a ELSE b

\* the most blends one record goes through in a behaviour: one per direct call
\* (an epoch evaluates each module at most once)
Scale == Pow(AlphaDen, MaxCalls)

\* ------------------------------------------------------------ name spaces
Name(n) == <<"m", n>>
Address(n) == <<"addr", n>>
NoAddress == <<"addr", 0>>
Key(n) == <<"key", n>>
EmptyKey == <<>>
NoKey == <<"absent">>

Names(n) == {Name(j) : j \in 1..n}

\* a resolved namespace of n modules: name -> address
Namespace(n) == [nm \in Names(n) |-> Address(nm[2])]

\* address2name = {v: k for k, v in namespace.items()}: the last name wins
Address2Name(ns) ==
    [a \in {ns[nm] : nm \in DOMAIN ns} |->
        LET ks == {nm \in DOMAIN ns : ns[nm] = a}
        IN CHOOSE nm \in ks : \A o \in ks : o[2] <= nm[2]]

\* list(namespace.values()), in the dict's insertion order
NamespaceValues(ns) == [j \in 1..Cardinality(DOMAIN ns) |-> ns[Name(j)]]

Perms(n) == {p \in [1..n -> 1..n] : \A a, b \in 1..n : a # b => p[a] # p[b]}

\* c.shuffle(list(namespace.values())): every order of the list
Shuffles(ns) ==
    LET vals == NamespaceValues(ns)
        n == Len(vals)
    IN {[j \in 1..n |-> vals[p[j]]] : p \in Perms(n)}

\* --------------------------------------------------------- persisted records
\* load_module_info(name, {}) of a name with nothing persisted
NoRecord ==
    [present |-> FALSE, name |-> Name(0), address |-> NoAddress, key |-> NoKey,
     timestamp |-> 0, latency |-> 0, w |-> 0]

VARIABLES
    now,            \* c.time()
    config,         \* batch_size, max_age, alpha (numerator over AlphaDen), print_interval
    namespace,      \* self.namespace
    address2name,   \* self.address2name
    store,          \* the module info cache: name -> persisted info
    requests, successes, errors,                    \* the Vali counters
    last_sent, last_success, last_sync_time, last_print,
    stats,          \* the last snapshot put at stats_path
    pc,             \* where epoch() is: idle, loop, final, raised
    order,          \* module_addresses of the running epoch
    i,              \* the loop index of epoch()
    futures,        \* the futures list of the running epoch (task ids)
    waiting,        \* the futures as_completed has not yet yielded in the final drain
    tasks,          \* every task handed to the executor: id -> task
    trace,          \* history: what the last eval_module call did
    hist,           \* history: per-epoch and per-run tallies
    key2uid,        \* the ledger: subspace.key2uid()
    cache,          \* what module_infos put at cache/module_infos
    voteset,        \* the last result of votes()
    last_vote_time, \* self.last_vote_time
    votes_file,     \* what save_votes put at votes_path
    chain,          \* the ledger: its block, the validator's last_update, the last vote sent
    vote_trace,     \* history: what the last vote() call did
    loop,           \* where vote_loop is: sleep, vote
    self_n,         \* self.n
    sync,           \* history: what the last set_network call did
    snap,           \* history: namespace and address2name when the epoch started
    worker,         \* where Vali.worker is, and what it has done
    candidate,      \* the value last handed to check_response
    checked,        \* what check_response made of it
    pool,           \* the workers the validator started, and its teardown
    query,          \* a chain query of Subspace and its attempts
    voters,         \* the vote loops that run, and where each is in vote()
    evals           \* the threads inside eval_module, statement by statement

vars == <<now, config, namespace, address2name, store, requests, successes, errors,
          last_sent, last_success, last_sync_time, last_print, stats, pc, order, i,
          futures, waiting, tasks, trace, hist,
          key2uid, cache, voteset,
          last_vote_time, votes_file, chain, vote_trace, loop, self_n, sync,
          snap, worker, candidate, checked, pool, query, voters, evals>>

votevars == <<last_vote_time, votes_file, chain, vote_trace, loop>>
syncvars == <<self_n, sync, snap>>
workvars == <<worker, candidate, checked>>
auxvars == <<pool, query, voters, evals>>


\* ---------------------------------------------------------- module info cache
\* load_module_info(k, {}): the persisted info, or {} when nothing is persisted
load_module_info(k) == IF k \in DOMAIN store THEN store[k] ELSE NoRecord

\* get_module_info(module): the name and address of a name or an address of the
\* namespace, over the persisted info of that name
get_module_info(module) ==
    LET module_name == IF module \in DOMAIN namespace THEN module
                       ELSE IF module \in DOMAIN address2name THEN address2name[module]
                       ELSE module
        module_address == IF module \in DOMAIN namespace THEN namespace[module]
                          ELSE IF module \in DOMAIN address2name THEN module
                          ELSE NoAddress
    IN [load_module_info(module_name) EXCEPT !.name = module_name,
                                             !.address = module_address]

\* ------------------------------------------------------------ scoring replies
\* What score_module hands back: a number, a bool, a dict (with or without 'w',
\* whose 'w' is a number or not), anything else, or an exception.
NumReply(v) == [t |-> "num", hasW |-> FALSE, numeric |-> TRUE, w |-> v]
BoolReply(b) == [t |-> "bool", hasW |-> FALSE, numeric |-> TRUE, w |-> IF b THEN 1 ELSE 0]
DictReply(v) == [t |-> "dict", hasW |-> TRUE, numeric |-> TRUE, w |-> v]
DictNoW == [t |-> "dict", hasW |-> FALSE, numeric |-> TRUE, w |-> 0]
DictTextW == [t |-> "dict", hasW |-> TRUE, numeric |-> FALSE, w |-> 0]
OtherReply == [t |-> "other", hasW |-> FALSE, numeric |-> FALSE, w |-> 0]
ScoreRaises == [t |-> "raise", hasW |-> FALSE, numeric |-> FALSE, w |-> 0]

\* a scoring result that is no number, no bool and no dict with a numeric 'w'
Malformed(response) ==
    \/ response.t = "other"
    \/ response.t = "dict" /\ ~(response.hasW /\ response.numeric)

\* score_module of the base class: {'success': True, 'w': 1}
score_module == DictReply(1)

\* check_response without its second assert: any dict passes
check_response_any_dict(response) ==
    CASE response.t \in {"num", "bool"} ->
            [ok |-> TRUE, numeric |-> TRUE, w |-> response.w * Scale]
      [] response.t = "dict" ->
            [ok |-> TRUE, numeric |-> response.numeric, w |-> response.w * Scale]
      [] OTHER -> [ok |-> FALSE, numeric |-> FALSE, w |-> 0]

\* check_response(response): ok is FALSE where an assert of it fails
check_response(response) ==
    CASE response.t \in {"num", "bool"} ->
            [ok |-> TRUE, numeric |-> TRUE, w |-> response.w * Scale]
      [] response.t = "dict" /\ response.hasW ->
            [ok |-> TRUE, numeric |-> response.numeric, w |-> response.w * Scale]
      [] OTHER -> [ok |-> FALSE, numeric |-> FALSE, w |-> 0]

\* ------------------------------------------------------------------ evaluator
\* info['w'] = response['w'] * alpha + info['w'] * (1 - alpha)
BlendBroken(r, w, a) == (r * a + w * (AlphaDen + a)) \div AlphaDen
BlendSwapped(r, w, a) == (r * (AlphaDen - a) + w * a) \div AlphaDen
Blend(r, w, a) == (r * a + w * (AlphaDen - a)) \div AlphaDen

\* the freshness test of eval_module: seconds_since_called < max_age
IsFreshBroken(info, t, max_age) == t - (IF info.present THEN info.timestamp ELSE 0) <= max_age
IsFreshNever(info, t, max_age) == FALSE
IsFresh(info, t, max_age) == t - (IF info.present THEN info.timestamp ELSE 0) < max_age

EvalResult(w, name, address) == [err |-> FALSE, w |-> w, module |-> name, address |-> address]
\* c.detailed_error(e): a dict with 'error': True
ErrorResult == [err |-> TRUE, w |-> 0, module |-> Name(0), address |-> NoAddress]

\* What one call of eval_module(module) does on the present state, when connect
\* succeeds or not (conn), module.info answers inf (inf.ok = FALSE: it raises) and
\* score_module answers sc.  exc names the exception that leaves eval_module
\* ("none": it returns res); put says whether put_json ran, under name putName.
eval_module(module, conn, inf, sc) ==
    LET info == get_module_info(module)
        a == config.alpha
        base == [module |-> module, name |-> info.name, present |-> info.present,
                 oldW |-> info.w, oldT |-> info.timestamp,
                 fresh |-> IsFresh(info, now, config.max_age),
                 connected |-> TRUE, fetched |-> FALSE, scored |-> FALSE,
                 unreachable |-> FALSE, malformed |-> FALSE,
                 scoreOk |-> FALSE, f |-> 0, exc |-> "none", put |-> FALSE,
                 putName |-> info.name, requests |-> 0,
                 res |-> ErrorResult, rec |-> info]
    IN IF ~conn THEN [base EXCEPT !.exc = "ConnectionError", !.unreachable = TRUE]
       ELSE IF IsFresh(info, now, config.max_age) THEN
            [base EXCEPT !.requests = 1,
                         !.res = EvalResult(IF info.present THEN info.w ELSE 0,
                                            info.name, info.address)]
       ELSE IF ~inf.ok THEN
            [base EXCEPT !.requests = 1, !.fetched = TRUE, !.exc = "TimeoutError",
                         !.unreachable = TRUE]
       ELSE
         LET info2 == [info EXCEPT !.name = inf.name,
                                   !.key = IF inf.key = NoKey THEN info.key ELSE inf.key,
                                   !.timestamp = now]
             chk == IF sc.t = "raise" THEN [ok |-> FALSE, numeric |-> FALSE, w |-> 0]
                    ELSE check_response(sc)
             \* info.update(response) on success; response = {'w': 0} on failure
             hasW == IF chk.ok THEN TRUE ELSE info.present
             numW == IF chk.ok THEN chk.numeric ELSE TRUE
             curW == IF chk.ok THEN chk.w ELSE info.w
             respW == IF chk.ok THEN chk.w ELSE 0
             ran == [base EXCEPT !.requests = 1, !.fetched = TRUE, !.scored = TRUE,
                                 !.malformed = Malformed(sc),
                                 !.scoreOk = chk.ok, !.f = respW, !.putName = inf.name]
         IN IF ~hasW THEN [ran EXCEPT !.exc = "KeyError"]
            ELSE IF ~numW THEN [ran EXCEPT !.exc = "TypeError"]
            ELSE
              LET newW == Blend(respW, curW, a)
                  info3 == [info2 EXCEPT !.present = TRUE, !.latency = 0, !.w = newW]
              IN [ran EXCEPT !.put = TRUE, !.rec = info3,
                             !.res = EvalResult(newW, info3.name, info3.address)]


\* ------------------------------------------------------------- environment
\* What module.info(timeout) of the module at an address can answer: its own name
\* and key, another name of the network, or a failure.
InfoReply(ok, name, key) == [ok |-> ok, name |-> name, key |-> key]
InfoReplies(address) ==
    LET n == address[2]
        other == Name((n % MaxModules) + 1)
    IN {InfoReply(TRUE, Name(n), Key(n)), InfoReply(TRUE, other, Key(n)),
        InfoReply(FALSE, Name(n), NoKey)}

ScoreReplies ==
    {score_module, BoolReply(FALSE), NumReply(-1), DictNoW, DictTextW, OtherReply,
     ScoreRaises}

\* What the outside does to one evaluation: connect fails, module.info fails, or
\* both answer and score_module hands back a reply.
Env(conn, inf, sc) == [conn |-> conn, inf |-> inf, sc |-> sc]
EnvCases(infos, scores) ==
    {Env(FALSE, InfoReply(FALSE, Name(0), NoKey), ScoreRaises)} \cup
    {Env(TRUE, inf, ScoreRaises) : inf \in {r \in infos : ~r.ok}} \cup
    {Env(TRUE, inf, sc) : inf \in {r \in infos : r.ok}, sc \in scores}

\* The replies the tasks of an epoch get: the scheduler does not look at them
\* beyond success and failure.
TaskInfoReplies(address) ==
    {InfoReply(TRUE, Name(address[2]), Key(address[2])),
     InfoReply(FALSE, Name(address[2]), NoKey)}

TaskScoreReplies == {score_module, ScoreRaises}

\* a record an earlier evaluation left in the store at time t
OldRecord(n, t) ==
    [present |-> TRUE, name |-> Name(n), address |-> Address(n), key |-> Key(n),
     timestamp |-> t, latency |-> 0, w |-> Scale]

\* c.is_error(result): a dict with 'error': True (or 'success': False)
is_error(result) == result.err

\* ------------------------------------------------------------------ history
NoTrace ==
    [called |-> FALSE, address |-> NoAddress, name |-> Name(0), present |-> FALSE,
     oldW |-> 0, oldT |-> 0, fresh |-> FALSE, sameWriter |-> FALSE,
     connected |-> FALSE, fetched |-> FALSE, scored |-> FALSE, scoreOk |-> FALSE,
     unreachable |-> FALSE, malformed |-> FALSE,
     f |-> 0, exc |-> "none", put |-> FALSE, putName |-> Name(0), retW |-> 0,
     at |-> 0]

TraceOf(out) ==
    [called |-> TRUE, address |-> out.rec.address, name |-> out.name,
     present |-> out.present,
     oldW |-> out.oldW, oldT |-> out.oldT, fresh |-> out.fresh,
     sameWriter |-> out.present /\ hist.writer[out.name] = out.rec.address,
     connected |-> out.connected, fetched |-> out.fetched, scored |-> out.scored,
     scoreOk |-> out.scoreOk, unreachable |-> out.unreachable,
     malformed |-> out.malformed, f |-> out.f, exc |-> out.exc, put |-> out.put,
     putName |-> out.putName, retW |-> out.res.w, at |-> now]

\* the effect of one eval_module call on the validator: the counter, the cache
Effect(out) ==
    /\ requests' = requests + out.requests
    /\ store' = IF out.put THEN [store EXCEPT ![out.putName] = out.rec] ELSE store

\* history: which module's evaluation persisted each record, and for each record
\* the run of failed evaluations of its own module that led to its score: their
\* number n and the score s0 the run started from
HistAfter(out) ==
    IF ~out.put THEN hist
    ELSE [hist EXCEPT
            !.writer[out.putName] = out.rec.address,
            !.streak[out.putName] =
                IF ~out.scoreOk /\ out.putName = out.name
                THEN [n |-> hist.streak[out.name].n + 1, s0 |-> hist.streak[out.name].s0]
                ELSE [n |-> 0, s0 |-> out.rec.w]]


\* ------------------------------------------------------------------ executor
NewTask(address) ==
    [module |-> address, epoch |-> hist.epoch, st |-> "running", res |-> ErrorResult,
     how |-> "none", drained |-> FALSE]

Finished(t) == tasks[t].st \in {"done", "raised", "cancelled"}
InFutures(t) == \E j \in 1..Len(futures) : futures[j] = t

\* futures.remove(ready_future)
Remove(seq, t) == SelectSeq(seq, LAMBDA x : x # t)

\* the stats snapshot of epoch(), put when print_interval has passed
Snapshot(succ, errs, pending, lsucc, lsent) ==
    [successes |-> succ, sent |-> requests, errors |-> errs, pending |-> pending,
     last_success |-> now - lsucc, last_sent |-> now - lsent]

\* the snapshot put after every task, whatever the time
PrintStepAlways(succ, errs, pending, lsucc, lsent) ==
    /\ stats' = Snapshot(succ, errs, pending, lsucc, lsent)
    /\ last_print' = now

PrintStep(succ, errs, pending, lsucc, lsent) ==
    IF now - last_print > config.print_interval
    THEN /\ stats' = Snapshot(succ, errs, pending, lsucc, lsent)
         /\ last_print' = now
    ELSE UNCHANGED <<stats, last_print>>

\* A worker thread of the executor runs eval_module of a submitted task to its end.
\* An exception of eval_module reaches the future either as a detailed_error
\* result or as the future's exception, as the executor chooses.
RunTask(t) ==
    /\ t \in DOMAIN tasks
    /\ tasks[t].st = "running"
    /\ \E e \in EnvCases(TaskInfoReplies(tasks[t].module), TaskScoreReplies),
          wrap \in BOOLEAN :
          LET out == eval_module(tasks[t].module, e.conn, e.inf, e.sc)
          IN /\ Effect(out)
             /\ hist' = HistAfter(out)
             /\ tasks' = [tasks EXCEPT ![t] =
                    [@ EXCEPT !.st = IF out.exc = "none" \/ wrap THEN "done" ELSE "raised",
                              !.res = out.res,
                              !.how = IF out.exc = "none" /\ ~out.scored THEN "hit"
                                      ELSE IF out.scoreOk THEN "scored" ELSE "failed"]]
    /\ UNCHANGED <<now, config, namespace, address2name, successes, errors, last_sent,
                   last_success, last_sync_time, last_print, stats, pc, order, i,
                   futures, waiting, trace,
                   key2uid, cache, voteset, votevars, syncvars, workvars, auxvars>>

\* --------------------------------------------------------------------- epoch
StartEpoch ==
    /\ pc = "idle"
    /\ hist.epoch = 0
    /\ \E o \in Shuffles(namespace) : order' = o
    /\ futures' = <<>>
    /\ waiting' = {}
    /\ i' = 1
    /\ last_sync_time' = now
    /\ pc' = "loop"
    /\ hist' = [hist EXCEPT !.epoch = @ + 1, !.timedOut = FALSE, !.s0 = successes,
                            !.e0 = errors]
    /\ snap' = [namespace |-> namespace, address2name |-> address2name]
    /\ UNCHANGED <<now, config, namespace, address2name, store, requests, successes,
                   errors, last_sent, last_success, last_print, stats, tasks, trace,
                   key2uid, cache, voteset, votevars, self_n, sync, workvars, auxvars>>

\* if len(futures) < self.config.batch_size
PoolHasRoomBroken == Len(futures) <= config.batch_size
PoolHasRoom == Len(futures) < config.batch_size

\* the pool has room: submit the module of this iteration
Submit ==
    /\ pc = "loop"
    /\ i <= Len(order)
    /\ PoolHasRoom
    /\ last_sent' = now
    /\ tasks' = Append(tasks, NewTask(order[i]))
    /\ futures' = Append(futures, Len(tasks) + 1)
    /\ PrintStep(successes, errors, Len(futures) + 1, last_success, now)
    /\ i' = i + 1
    /\ UNCHANGED <<now, config, namespace, address2name, store, requests, successes,
                   errors, last_success, last_sync_time, pc, order, waiting, trace,
                   hist,
                   key2uid, cache, voteset, votevars, syncvars, workvars, auxvars>>

\* the pool is full and as_completed yields a future whose result() returns
Drain(t) ==
    /\ pc = "loop"
    /\ i <= Len(order)
    /\ ~PoolHasRoom
    /\ InFutures(t)
    /\ tasks[t].st = "done"
    /\ LET bad == is_error(tasks[t].res)
           succ == IF bad THEN successes ELSE successes + 1
           errs == IF bad THEN errors + 1 ELSE errors
           lsucc == IF bad THEN last_success ELSE now
       IN /\ successes' = succ
          /\ errors' = errs
          /\ last_success' = lsucc
          /\ futures' = Remove(futures, t)
          /\ PrintStep(succ, errs, Len(futures) - 1, lsucc, last_sent)
    /\ tasks' = [tasks EXCEPT ![t].drained = TRUE]
    /\ i' = i + 1
    /\ UNCHANGED <<now, config, namespace, address2name, store, requests, last_sent,
                   last_sync_time, pc, order, waiting, trace, hist,
                   key2uid, cache, voteset, votevars, syncvars, workvars, auxvars>>

\* the except branch of the loop: every future is cancelled (a future that is
\* already running or finished cannot be) and counted as an error; the futures
\* list keeps them all
CancelAll(cancelled, timedOut) ==
    /\ cancelled \subseteq {t \in DOMAIN tasks : InFutures(t) /\ tasks[t].st = "running"}
    /\ tasks' = [t \in DOMAIN tasks |->
                    IF t \in cancelled THEN [tasks[t] EXCEPT !.st = "cancelled"]
                    ELSE tasks[t]]
    /\ errors' = errors + Len(futures)
    /\ hist' = [hist EXCEPT !.timedOut = @ \/ timedOut]
    /\ i' = i + 1
    /\ UNCHANGED <<now, config, namespace, address2name, store, requests, successes,
                   last_sent, last_success, last_sync_time, last_print, stats, pc,
                   order, futures, waiting, trace,
                   key2uid, cache, voteset, votevars, syncvars, workvars, auxvars>>

\* the pool is full and as_completed yields a future whose result() raises
DrainRaises(t) ==
    /\ pc = "loop"
    /\ i <= Len(order)
    /\ ~PoolHasRoom
    /\ InFutures(t)
    /\ tasks[t].st \in {"raised", "cancelled"}
    /\ \E cancelled \in SUBSET DOMAIN tasks : CancelAll(cancelled, FALSE)

\* as_completed without its timeout: the wait only ends by a completion
WaitTimeoutNever == FALSE

\* the pool is full and no future completes within config.timeout
WaitTimeout ==
    /\ pc = "loop"
    /\ i <= Len(order)
    /\ ~PoolHasRoom
    /\ \A t \in DOMAIN tasks : InFutures(t) => ~Finished(t)
    /\ \E cancelled \in SUBSET DOMAIN tasks : CancelAll(cancelled, TRUE)

Return ==
    /\ pc' = "idle"
    /\ hist' = [hist EXCEPT !.returned = @ + 1]

\* the loop is over: the final drain starts when futures are left
LoopEnd ==
    /\ pc = "loop"
    /\ i > Len(order)
    /\ IF Len(futures) > 0
       THEN /\ pc' = "final"
            /\ waiting' = {futures[j] : j \in 1..Len(futures)}
            /\ UNCHANGED hist
       ELSE /\ Return
            /\ UNCHANGED waiting
    /\ UNCHANGED <<now, config, namespace, address2name, store, requests, successes,
                   errors, last_sent, last_success, last_sync_time, last_print, stats,
                   order, i, futures, tasks, trace,
                   key2uid, cache, voteset, votevars, syncvars, workvars, auxvars>>

\* the final drain takes a future whose result() returns
FinalDrain(t) ==
    /\ pc = "final"
    /\ t \in waiting
    /\ tasks[t].st = "done"
    /\ LET bad == is_error(tasks[t].res)
       IN /\ successes' = IF bad THEN successes ELSE successes + 1
          /\ errors' = IF bad THEN errors + 1 ELSE errors
          /\ last_success' = IF bad THEN last_success ELSE now
    /\ waiting' = waiting \ {t}
    /\ tasks' = [tasks EXCEPT ![t].drained = TRUE]
    /\ UNCHANGED <<now, config, namespace, address2name, store, requests, last_sent,
                   last_sync_time, last_print, stats, pc, order, i, futures, trace,
                   hist,
                   key2uid, cache, voteset, votevars, syncvars, workvars, auxvars>>

\* the final drain has no try: a result() that raises leaves epoch()
FinalRaises(t) ==
    /\ pc = "final"
    /\ t \in waiting
    /\ tasks[t].st \in {"raised", "cancelled"}
    /\ pc' = "raised"
    /\ UNCHANGED <<now, config, namespace, address2name, store, requests, successes,
                   errors, last_sent, last_success, last_sync_time, last_print, stats,
                   order, i, futures, waiting, tasks, trace, hist,
                   key2uid, cache, voteset, votevars, syncvars, workvars, auxvars>>

\* no future of the final drain completes within config.timeout: as_completed raises
FinalTimeout ==
    /\ pc = "final"
    /\ waiting # {}
    /\ \A t \in waiting : ~Finished(t)
    /\ pc' = "raised"
    /\ hist' = [hist EXCEPT !.timedOut = TRUE]
    /\ UNCHANGED <<now, config, namespace, address2name, store, requests, successes,
                   errors, last_sent, last_success, last_sync_time, last_print, stats,
                   order, i, futures, waiting, tasks, trace,
                   key2uid, cache, voteset, votevars, syncvars, workvars, auxvars>>

\* return results
FinalReturn ==
    /\ pc = "final"
    /\ waiting = {}
    /\ Return
    /\ UNCHANGED <<now, config, namespace, address2name, store, requests, successes,
                   errors, last_sent, last_success, last_sync_time, last_print, stats,
                   order, i, futures, waiting, tasks, trace,
                   key2uid, cache, voteset, votevars, syncvars, workvars, auxvars>>

\* c.time() advances
Tick ==
    /\ now < MaxAge + MaxTime
    /\ now' = now + 1
    /\ UNCHANGED <<config, namespace, address2name, store, requests, successes, errors,
                   last_sent, last_success, last_sync_time, last_print, stats, pc,
                   order, i, futures, waiting, tasks, trace, hist,
                   key2uid, cache, voteset, votevars, syncvars, workvars, auxvars>>

\* ------------------------------------------------------------- specification
NoStats ==
    [successes |-> 0, sent |-> 0, errors |-> 0, pending |-> 0, last_success |-> 0,
     last_sent |-> 0]

NoVotes == [keys |-> <<>>, weights |-> <<>>, uids |-> <<>>, timestamp |-> 0]

\* ------------------------------------------------- voting and sync at rest
\* load_votes() of a path nothing was put at
NoSavedVotes == [uids |-> <<>>, weights |-> <<>>, timestamp |-> 0, block |-> 0]

\* nothing put at votes_path yet
NoVotesFile == [saved |-> FALSE, votes |-> NoVotes]

\* a ledger that has no vote of this validator
NoChain ==
    [block |-> 0, last_update |-> 0, sent |-> FALSE, uids |-> <<>>, weights |-> <<>>,
     sent_at |-> 0]

NoVoteTrace ==
    [called |-> FALSE, by |-> "none", at |-> 0, save |-> FALSE, success |-> FALSE,
     msg |-> "none", exc |-> "none", built |-> FALSE, votes |-> NoVotes,
     submitted |-> FALSE, outcome |-> "none", lastBefore |-> 0,
     fileBefore |-> NoVotesFile, returned_at |-> 0]

NoSync ==
    [called |-> FALSE, at |-> 0, lookup |-> FALSE, found |-> <<>>, before |-> <<>>,
     after |-> <<>>, a2nBefore |-> <<>>, a2nAfter |-> <<>>, nBefore |-> 0,
     nAfter |-> 0, syncBefore |-> 0, syncAfter |-> 0, resolvedBefore |-> 0,
     resolved_at |-> 0]

\* no epoch started yet
NoSnap == [namespace |-> <<>>, address2name |-> <<>>]

\* init_vali has not reached its loop over the workers
NoPool ==
    [mode |-> "none", workers |-> 0, next |-> 0, live |-> {}, torn |-> FALSE,
     liveAtDel |-> {}, listed |-> {}, killed |-> {}, waitTimeout |-> 0]

\* no validator constructed yet: no vote loop runs
NoVoters == [loops |-> 0, toBuild |-> 0, passed |-> {}, submits |-> <<>>]

\* a thread of the executor that has not entered eval_module
NoEval ==
    [pc |-> "start", info |-> NoRecord, req |-> 0, connected |-> FALSE,
     failed |-> FALSE, put |-> FALSE]

\* no chain query made
NoQuery ==
    [fn |-> "none", pc |-> "none", left |-> 0, delay |-> 0, slept |-> 0,
     attempts |-> <<>>]

\* Vali.worker not called
NoWorker ==
    [pc |-> "none", epochs |-> 0, kwargs |-> {}, started |-> 0, completed |-> 0,
     exc |-> "none"]

\* nothing handed to check_response yet
NoResponse == [t |-> "none", hasW |-> FALSE, numeric |-> FALSE, w |-> 0]
NoChecked == [called |-> FALSE, out |-> [ok |-> FALSE, numeric |-> FALSE, w |-> 0]]

\* no vote() call made, the vote loop asleep
VotingIdle ==
    /\ last_vote_time = 0
    /\ votes_file = NoVotesFile
    /\ chain = NoChain
    /\ vote_trace = NoVoteTrace
    /\ loop = "sleep"

\* init_vali has resolved the namespace once, at last_sync_time
SyncIdle ==
    /\ self_n = Cardinality(DOMAIN namespace)
    /\ sync = [NoSync EXCEPT !.resolved_at = last_sync_time]
    /\ snap = NoSnap

\* no worker started, check_response not called
WorkIdle ==
    /\ pool = NoPool
    /\ evals = [t \in 1..MaxThreads |-> NoEval]
    /\ voters = NoVoters
    /\ query = NoQuery
    /\ worker = NoWorker
    /\ candidate = NoResponse
    /\ checked = NoChecked

InitHist(st) ==
    [epoch |-> 0, returned |-> 0, timedOut |-> FALSE, s0 |-> 0, e0 |-> 0, calls |-> 0,
     voted |-> FALSE,
     writer |-> [nm \in DOMAIN st |-> st[nm].address],
     streak |-> [nm \in DOMAIN st |-> [n |-> 0, s0 |-> st[nm].w]]]

\* a validator after init_vali: the class attributes, the resolved namespace,
\* nothing persisted yet
InitVali(n) ==
    /\ store \in {[nm \in Names(MaxModules) |-> NoRecord]} \cup
                {[nm \in Names(MaxModules) |->
                     IF nm \in Names(n) THEN OldRecord(nm[2], t) ELSE NoRecord] :
                 t \in {0, MaxAge}}
    /\ now = MaxAge
    /\ namespace = Namespace(n)
    /\ address2name = Address2Name(Namespace(n))
    /\ requests = 0 /\ successes = 0 /\ errors = 0
    /\ last_sent = 0 /\ last_success = 0 /\ last_sync_time = MaxAge /\ last_print = 0
    /\ stats = NoStats
    /\ pc = "idle"
    /\ order = <<>>
    /\ i = 1
    /\ futures = <<>>
    /\ waiting = {}
    /\ tasks = <<>>
    /\ trace = NoTrace
    /\ hist = InitHist(store)
    /\ key2uid = <<>>
    /\ cache = <<>>
    /\ voteset = NoVotes
    /\ VotingIdle
    /\ SyncIdle
    /\ WorkIdle

Init ==
    /\ \E n \in 1..MaxModules : InitVali(n)
    /\ config \in [batch_size : 1..MaxBatch, max_age : 1..MaxAge, alpha : {1},
                   print_interval : {1}]

Next ==
    \/ StartEpoch
    \/ Submit
    \/ \E t \in DOMAIN tasks : Drain(t)
    \/ \E t \in DOMAIN tasks : DrainRaises(t)
    \/ WaitTimeout
    \/ LoopEnd
    \/ \E t \in DOMAIN tasks : FinalDrain(t)
    \/ \E t \in DOMAIN tasks : FinalRaises(t)
    \/ FinalTimeout
    \/ FinalReturn
    \/ \E t \in DOMAIN tasks : RunTask(t)

\* One validator running epoch() once over a store that earlier epochs left
\* empty, stale or fresh.  The clock stands still: an epoch of this
\* specification is shorter than one unit of the clock.
Spec == Init /\ [][Next]_vars


\* --------------------------------------------------------------- direct calls
\* eval_module called directly (as test_eval_module does), by name or by address
CallEval(module) ==
    /\ hist.calls < MaxCalls
    /\ \E e \in EnvCases(InfoReplies(get_module_info(module).address), ScoreReplies) :
          LET out == eval_module(module, e.conn, e.inf, e.sc)
          IN /\ Effect(out)
             /\ trace' = TraceOf(out)
             /\ hist' = [HistAfter(out) EXCEPT !.calls = @ + 1]
    /\ UNCHANGED <<now, config, namespace, address2name, successes, errors, last_sent,
                   last_success, last_sync_time, last_print, stats, pc, order, i,
                   futures, waiting, tasks,
                   key2uid, cache, voteset, votevars, syncvars, workvars, auxvars>>

InitEval ==
    /\ InitVali(Min2(EvalModules, MaxModules))
    /\ config \in [batch_size : {1}, max_age : 1..MaxAge, alpha : {1, AlphaDen - 1},
                   print_interval : {1}]

NextEval ==
    \/ \E module \in DOMAIN namespace \cup DOMAIN address2name : CallEval(module)
    \/ Tick

\* eval_module called up to MaxCalls times while the clock advances
SpecEval == InitEval /\ [][NextEval]_vars


\* ------------------------------------------------------------ unknown module
\* a name and an address that no namespace of the model holds
UnknownModules == {Name(MaxModules + 1), Address(MaxModules + 1)}

\* What answers when c.connect is handed address None: nothing (the connect or
\* module.info fails), or some server of the network, which reports its own name
\* and key.
UnknownInfoReplies ==
    {InfoReply(TRUE, Name(1), Key(1)), InfoReply(FALSE, Name(1), NoKey)}

\* eval_module called with a module that is neither a name nor an address of
\* the namespace
CallUnknown(module) ==
    /\ hist.calls < MaxCalls
    /\ module \notin DOMAIN namespace \cup DOMAIN address2name
    /\ \E e \in EnvCases(UnknownInfoReplies, ScoreReplies) :
          LET out == eval_module(module, e.conn, e.inf, e.sc)
          IN /\ Effect(out)
             /\ trace' = TraceOf(out)
             /\ hist' = [HistAfter(out) EXCEPT !.calls = @ + 1]
    /\ UNCHANGED <<now, config, namespace, address2name, successes, errors, last_sent,
                   last_success, last_sync_time, last_print, stats, pc, order, i,
                   futures, waiting, tasks,
                   key2uid, cache, voteset, votevars, syncvars, workvars, auxvars>>

NextUnknown ==
    \/ \E module \in UnknownModules : CallUnknown(module)
    \/ Tick

\* eval_module called with unknown modules while the clock advances
SpecUnknown == InitEval /\ [][NextUnknown]_vars

\* -------------------------------------------------------------------- worker
\* the keyword parameters of epoch(self, stats_path="worker_stats")
EpochParams == {"stats_path"}

\* the keyword arguments a caller hands to worker() besides epochs
WorkerKwargs == SUBSET {"network", "search"}

\* for epoch in range(int(epochs)), where epochs = -1 has become 1e10 (more
\* iterations than any run makes: taken as no limit)
EpochsLeft(w) == w.epochs = -1 \/ w.started < w.epochs

\* Vali.worker(epochs=E, **kw): kwargs['workers'] = 0, then the validator is
\* constructed (the state of this model) and the loop over the epochs begins
WorkerStart(E, kw) ==
    /\ worker.pc = "none"
    /\ worker' = [NoWorker EXCEPT !.pc = "loop", !.epochs = E,
                                  !.kwargs = kw \cup {"workers"}]
    /\ UNCHANGED <<now, config, namespace, address2name, store, requests, successes,
                   errors, last_sent, last_success, last_sync_time, last_print, stats,
                   pc, order, i, futures, waiting, tasks, trace, hist, key2uid, cache,
                   voteset, votevars, syncvars, candidate, checked, auxvars>>

\* one iteration: self.epoch(stats_path=..., **kwargs).  A keyword that epoch
\* does not take is a TypeError of the call, raised before the body of epoch
\* runs; it leaves worker().
WorkerEpoch ==
    /\ worker.pc = "loop"
    /\ EpochsLeft(worker)
    /\ worker' = IF worker.kwargs \cup {"stats_path"} \subseteq EpochParams
                 THEN [worker EXCEPT !.started = @ + 1, !.completed = @ + 1]
                 ELSE [worker EXCEPT !.started = @ + 1, !.pc = "raised",
                                     !.exc = "TypeError"]
    /\ UNCHANGED <<now, config, namespace, address2name, store, requests, successes,
                   errors, last_sent, last_success, last_sync_time, last_print, stats,
                   pc, order, i, futures, waiting, tasks, trace, hist, key2uid, cache,
                   voteset, votevars, syncvars, candidate, checked, auxvars>>

\* the range is exhausted: worker() returns
WorkerReturn ==
    /\ worker.pc = "loop"
    /\ ~EpochsLeft(worker)
    /\ worker' = [worker EXCEPT !.pc = "returned"]
    /\ UNCHANGED <<now, config, namespace, address2name, store, requests, successes,
                   errors, last_sent, last_success, last_sync_time, last_print, stats,
                   pc, order, i, futures, waiting, tasks, trace, hist, key2uid, cache,
                   voteset, votevars, syncvars, candidate, checked, auxvars>>

NextWorker ==
    \/ \E E \in {-1} \cup 0..MaxEpochs, kw \in WorkerKwargs : WorkerStart(E, kw)
    \/ WorkerEpoch
    \/ WorkerReturn

\* Vali.worker called once, with a bounded epochs count or with -1
SpecWorker == Init /\ [][NextWorker]_vars

\* ------------------------------------------------- workers and teardown
\* config.mode
Modes == {"thread", "process", "server"}

\* c.wait(futures, timeout=10) of __del__
DelTimeout == 10

\* workers(): the servers or the threads that are the live workers of this
\* validator; nothing in any other mode
workers == IF pool.mode \in {"server", "thread"} THEN pool.live ELSE {}

\* init_vali reaches "for i in range(self.config.workers)" with this config
ConfigurePool(mode, W) ==
    /\ pool.mode = "none"
    /\ pool' = [NoPool EXCEPT !.mode = mode, !.workers = W]
    /\ UNCHANGED <<now, config, namespace, address2name, store, requests, successes,
                   errors, last_sent, last_success, last_sync_time, last_print, stats,
                   pc, order, i, futures, waiting, tasks, trace, hist, key2uid, cache,
                   voteset, votevars, syncvars, workvars, query, voters, evals>>

\* start_worker(i): a thread, a process or a server, as the mode says
start_worker ==
    /\ pool.mode \in Modes
    /\ ~pool.torn
    /\ pool.next < pool.workers
    /\ pool' = [pool EXCEPT !.live = @ \cup {pool.next}, !.next = @ + 1]
    /\ UNCHANGED <<now, config, namespace, address2name, store, requests, successes,
                   errors, last_sent, last_success, last_sync_time, last_print, stats,
                   pc, order, i, futures, waiting, tasks, trace, hist, key2uid, cache,
                   voteset, votevars, syncvars, workvars, query, voters, evals>>

\* a worker ends by itself (worker() returns or raises)
WorkerExits(id) ==
    /\ id \in pool.live
    /\ ~pool.torn
    /\ pool' = [pool EXCEPT !.live = @ \ {id}]
    /\ UNCHANGED <<now, config, namespace, address2name, store, requests, successes,
                   errors, last_sent, last_success, last_sync_time, last_print, stats,
                   pc, order, i, futures, waiting, tasks, trace, hist, key2uid, cache,
                   voteset, votevars, syncvars, workvars, query, voters, evals>>

\* __del__: c.kill is submitted for each worker that workers() lists, in the
\* thread and the server mode, and the kills are awaited for DelTimeout seconds
Del ==
    /\ pool.mode \in Modes
    /\ ~pool.torn
    /\ pool.next = pool.workers
    /\ pool' = [pool EXCEPT !.torn = TRUE, !.liveAtDel = pool.live,
                            !.listed = workers,
                            !.killed = IF pool.mode \in {"thread", "server"}
                                       THEN workers ELSE {},
                            !.waitTimeout = DelTimeout]
    /\ UNCHANGED <<now, config, namespace, address2name, store, requests, successes,
                   errors, last_sent, last_success, last_sync_time, last_print, stats,
                   pc, order, i, futures, waiting, tasks, trace, hist, key2uid, cache,
                   voteset, votevars, syncvars, workvars, query, voters, evals>>

NextTeardown ==
    \/ \E mode \in Modes, W \in 0..MaxWorkers : ConfigurePool(mode, W)
    \/ start_worker
    \/ \E id \in 0..MaxWorkers : WorkerExits(id)
    \/ Del

\* a validator is constructed with its workers and later torn down
SpecTeardown == Init /\ [][NextTeardown]_vars

\* ------------------------------------------------------------ chain queries
\* the queries of Subspace that are wrapped in @retry
Queries == {"query_subspace", "query_map_subspace", "query_constant", "get_current_block"}

\* @retry(delay=2, tries=3, backoff=2, max_delay=4) on each of them
retry_tries_four(fn) == 4
retry_tries(fn) == 3
retry_delay(fn) == 2
retry_backoff(fn) == 2
retry_max_delay(fn) == 4

\* one of the queries is called
QueryCall(fn) ==
    /\ query.pc = "none"
    /\ query' = [NoQuery EXCEPT !.fn = fn, !.pc = "try", !.left = retry_tries(fn),
                                !.delay = retry_delay(fn)]
    /\ UNCHANGED <<now, config, namespace, address2name, store, requests, successes,
                   errors, last_sent, last_success, last_sync_time, last_print, stats,
                   pc, order, i, futures, waiting, tasks, trace, hist, key2uid, cache,
                   voteset, votevars, syncvars, workvars, pool, voters, evals>>

\* one attempt of the decorated call: the substrate answers (ok) or raises.  After
\* a failure the decorator counts the attempt, re-raises when none is left, and
\* otherwise sleeps the delay and multiplies it by the backoff, up to max_delay.
QueryAttempt(ok) ==
    /\ query.pc = "try"
    /\ query' =
          IF ok THEN [query EXCEPT !.pc = "returned", !.attempts = Append(@, TRUE)]
          ELSE IF query.left - 1 = 0
          THEN [query EXCEPT !.pc = "raised", !.left = 0,
                             !.attempts = Append(@, FALSE)]
          ELSE [query EXCEPT !.left = @ - 1, !.attempts = Append(@, FALSE),
                             !.slept = @ + query.delay,
                             !.delay = Min2(query.delay * retry_backoff(query.fn),
                                            retry_max_delay(query.fn))]
    /\ UNCHANGED <<now, config, namespace, address2name, store, requests, successes,
                   errors, last_sent, last_success, last_sync_time, last_print, stats,
                   pc, order, i, futures, waiting, tasks, trace, hist, key2uid, cache,
                   voteset, votevars, syncvars, workvars, pool, voters, evals>>

NextQuery ==
    \/ \E fn \in Queries : QueryCall(fn)
    \/ \E ok \in BOOLEAN : QueryAttempt(ok)

\* one chain query, whose attempts fail or succeed as the chain decides
SpecQuery == Init /\ [][NextQuery]_vars

\* ------------------------------------------------------------ check_response
\* the values check_response is handed: numbers, bools, dicts with a numeric
\* 'w', a text 'w' or no 'w', and a value of another type
Responses ==
    {NumReply(v) : v \in -MaxWeight..MaxWeight} \cup
    {DictReply(v) : v \in -MaxWeight..MaxWeight} \cup
    {BoolReply(b) : b \in BOOLEAN} \cup {DictNoW, DictTextW, OtherReply}

\* check_response(r) called on its own
CheckResponse(r) ==
    /\ candidate' = r
    /\ checked' = [called |-> TRUE, out |-> check_response(r)]
    /\ UNCHANGED <<now, config, namespace, address2name, store, requests, successes,
                   errors, last_sent, last_success, last_sync_time, last_print, stats,
                   pc, order, i, futures, waiting, tasks, trace, hist, key2uid, cache,
                   voteset, votevars, syncvars, worker, auxvars>>

InitCheck ==
    /\ InitVali(1)
    /\ config = [batch_size |-> 1, max_age |-> 1, alpha |-> 1, print_interval |-> 1]

NextCheck == \E r \in Responses : CheckResponse(r)

\* check_response applied to every value of Responses
SpecCheck == InitCheck /\ [][NextCheck]_vars

\* ---------------------------------------------------------------------- votes
\* module_infos(keys=['name', 'w', 'ss58_address']) at time t: the persisted
\* dicts that have 'ss58_address' and are not older than max_age, each cut down
\* to the keys asked for.  No dict has the sort key 'staleness' any more, so the
\* (stable) sort leaves the order of the paths.
\* module_infos without the staleness filter
RECURSIVE InfosFromAll(_, _)
InfosFromAll(j, t) ==
    IF j > MaxModules THEN <<>>
    ELSE LET s == store[Name(j)]
         IN (IF s.present /\ s.key # NoKey
             THEN <<[name |-> s.name, w |-> s.w, ss58_address |-> s.key]>>
             ELSE <<>>) \o InfosFromAll(j + 1, t)

RECURSIVE InfosFrom(_, _)
InfosFrom(j, t) ==
    IF j > MaxModules THEN <<>>
    ELSE LET s == store[Name(j)]
             staleness == t - s.timestamp
         IN (IF s.present /\ s.key # NoKey /\ ~(staleness > InfosMaxAge)
             THEN <<[name |-> s.name, w |-> s.w, ss58_address |-> s.key]>>
             ELSE <<>>) \o InfosFrom(j + 1, t)

module_infos(t) == InfosFrom(1, t)

\* if 'ss58_address' in info and info['w'] >= 0
VoteEligibleBroken(info) == info.w > 0
VoteEligibleAny(info) == TRUE
VoteEligible(info) == info.w >= 0

\* if info['ss58_address'] in key2uid
HasUid(info) == info.ss58_address \in DOMAIN key2uid

RECURSIVE VotesOver(_, _)
VotesOver(infos, acc) ==
    IF infos = <<>> THEN acc
    ELSE LET info == Head(infos)
         IN VotesOver(Tail(infos),
                IF VoteEligible(info) /\ HasUid(info)
                THEN [acc EXCEPT !.keys = Append(@, info.ss58_address),
                                 !.weights = Append(@, info.w),
                                 !.uids = Append(@, key2uid[info.ss58_address])]
                ELSE acc)

\* votes(): the vote set over the fresh module infos
votes ==
    VotesOver(module_infos(now),
              [keys |-> <<>>, weights |-> <<>>, uids |-> <<>>, timestamp |-> now])

\* a call of votes(); module_infos puts its list at cache/module_infos
Votes ==
    /\ voteset' = votes
    /\ cache' = module_infos(now)
    /\ hist' = [hist EXCEPT !.voted = TRUE]
    /\ UNCHANGED <<now, config, namespace, address2name, store, requests, successes,
                   errors, last_sent, last_success, last_sync_time, last_print, stats,
                   pc, order, i, futures, waiting, tasks, trace, key2uid,
                   votevars, syncvars, workvars, auxvars>>

\* the records a store can hold when votes() is called: none, or one with or
\* without a key, with an empty key, a negative, zero or positive score, written
\* long ago, max_age ago or just now
CachedRecords(n, t) ==
    {NoRecord} \cup
    {[present |-> TRUE, name |-> Name(n), address |-> Address(n), key |-> k,
      timestamp |-> ts, latency |-> 0, w |-> w] :
        k \in {NoKey, EmptyKey} \cup {Key(j) : j \in 1..MaxKeys},
        ts \in {0, t - InfosMaxAge},
        w \in {-Scale, 0, Scale}}

\* the stores whose first MaxRecords names hold such records
RECURSIVE CachedStores(_, _)
CachedStores(n, t) ==
    IF n = 0 THEN {[nm \in Names(MaxModules) |-> NoRecord]}
    ELSE {[st EXCEPT ![Name(n)] = r] :
              st \in CachedStores(n - 1, t), r \in CachedRecords(n, t)}

\* the ledger maps some of the keys to their uids; the empty string is no key of it
Ledgers == {[k \in S |-> k[2]] : S \in SUBSET {Key(j) : j \in 1..MaxKeys}}

InitVotes ==
    /\ now = InfosMaxAge + MaxAge
    /\ config \in [batch_size : {1}, max_age : {MaxAge}, alpha : {1}, print_interval : {1}]
    /\ namespace = Namespace(MaxModules)
    /\ address2name = Address2Name(Namespace(MaxModules))
    /\ store \in CachedStores(Min2(MaxRecords, MaxModules), now)
    /\ requests = 0 /\ successes = 0 /\ errors = 0
    /\ last_sent = 0 /\ last_success = 0 /\ last_sync_time = now /\ last_print = 0
    /\ stats = NoStats
    /\ pc = "idle"
    /\ order = <<>>
    /\ i = 1
    /\ futures = <<>>
    /\ waiting = {}
    /\ tasks = <<>>
    /\ trace = NoTrace
    /\ hist = InitHist(store)
    /\ key2uid \in Ledgers
    /\ cache = <<>>
    /\ voteset = NoVotes
    /\ VotingIdle
    /\ SyncIdle
    /\ WorkIdle

TickVotes ==
    /\ now < InfosMaxAge + MaxAge + MaxTime
    /\ now' = now + 1
    /\ UNCHANGED <<config, namespace, address2name, store, requests, successes, errors,
                   last_sent, last_success, last_sync_time, last_print, stats, pc,
                   order, i, futures, waiting, tasks, trace, hist, key2uid, cache,
                   voteset, votevars, syncvars, workvars, auxvars>>

NextVotes ==
    \/ Votes
    \/ TickVotes

\* votes() called, again and again, over a store earlier evaluations filled
SpecVotes == InitVotes /\ [][NextVotes]_vars

\* ------------------------------------------------------- records are kept
\* a validator whose store holds a record of an earlier run, with a positive
\* score, older than the max_age of module_infos or not; its module is evaluated
InitKeep ==
    /\ InitVotes
    /\ store \in {st \in CachedStores(1, now) : st[Name(1)].w > 0}
    /\ key2uid = [k \in {Key(j) : j \in 1..MaxKeys} |-> k[2]]

NextKeep ==
    \/ CallEval(Name(1))
    \/ Votes
    \/ TickVotes

\* evaluations and votes() calls over such a store, as the seconds pass
SpecKeep == InitKeep /\ [][NextKeep]_vars

\* ------------------------------------------------------------- vote pipeline
\* the longest config.vote_interval, and the seconds the clock runs on
MaxInterval == 1
MaxVoteTime == 1

\* the network selectors of the model; each is one bare word, so that
\* "'subspace' in network" is an equality
Networks == {"subspace", "bittensor", "local"}
IsSubspace(network) == network = "subspace"
IsBittensor(network) == network = "bittensor"

\* vote_staleness: the blocks since the ledger's last_update of this validator
vote_staleness ==
    IF IsSubspace(config.network) THEN chain.block - chain.last_update ELSE 0

\* load_votes()
load_votes == IF votes_file.saved THEN votes_file.votes ELSE NoSavedVotes

\* save_votes(votes)
save_votes_broken(v) == [saved |-> TRUE, votes |-> [v EXCEPT !.timestamp = 0]]
save_votes(v) == [saved |-> TRUE, votes |-> v]

\* if self.vote_staleness < self.config.vote_interval
TooNew == vote_staleness < config.vote_interval

\* if not 'subspace' in network and 'bittensor' not in network
NotVotingNetwork == ~IsSubspace(config.network) /\ ~IsBittensor(config.network)

\* if len(votes['uids']) < self.config.min_num_weights
TooLowBroken(v) == Len(v.uids) + 1 < config.min_num_weights
TooLow(v) == Len(v.uids) < config.min_num_weights

\* What c.vote can do: the ledger takes the vote ("ok": last_update becomes the
\* current block), the call returns an unsuccessful result ("rejected"), or it
\* raises ("raises").
ChainOutcomes == {"ok", "rejected", "raises"}

\* the ledger after c.vote(uids, weights) ended with outcome o
c_vote(v, o) ==
    [chain EXCEPT !.sent = TRUE, !.uids = v.uids, !.weights = v.weights,
                  !.sent_at = now,
                  !.last_update = IF o = "ok" THEN chain.block ELSE @]

\* What one call of vote(save = save) does on the present state when c.vote ends
\* with outcome o after d seconds.  exc names the exception that leaves vote()
\* ("none": it returns a dict with 'success' and msg).
vote(save, o, d) ==
    LET v == votes
        base == [success |-> FALSE, msg |-> "none", exc |-> "none", built |-> FALSE,
                 votes |-> NoVotes, submitted |-> FALSE, file |-> votes_file,
                 last |-> last_vote_time, chain |-> chain, dt |-> 0]
        made == [base EXCEPT !.built = TRUE, !.votes = v]
    IN IF TooNew THEN [base EXCEPT !.msg = "Vote is too new"]
       ELSE IF NotVotingNetwork THEN [base EXCEPT !.msg = "Not a voting network"]
       \* self.subspace is set by set_network on a subspace network only
       ELSE IF ~IsSubspace(config.network) THEN [base EXCEPT !.exc = "AttributeError"]
       ELSE IF TooLow(v) THEN [made EXCEPT !.msg = "The votes are too low"]
       ELSE IF o = "raises" THEN
            [made EXCEPT !.submitted = TRUE, !.exc = "ChainError", !.dt = d,
                         !.chain = c_vote(v, o)]
       ELSE [made EXCEPT !.submitted = TRUE, !.success = TRUE, !.msg = "Voted",
                         !.dt = d, !.chain = c_vote(v, o),
                         !.file = IF save THEN save_votes(v) ELSE votes_file,
                         !.last = now + d]

\* a vote() call by the vote loop or by a caller
VoteCall(by, save, o, d) ==
    LET r == vote(save, o, d)
    IN /\ now' = now + r.dt
       /\ last_vote_time' = r.last
       /\ votes_file' = r.file
       /\ chain' = r.chain
       /\ voteset' = IF r.built THEN r.votes ELSE voteset
       /\ cache' = IF r.built THEN module_infos(now) ELSE cache
       /\ hist' = IF r.built THEN [hist EXCEPT !.voted = TRUE] ELSE hist
       /\ vote_trace' =
            [called |-> TRUE, by |-> by, at |-> now, save |-> save,
             success |-> r.success, msg |-> r.msg, exc |-> r.exc, built |-> r.built,
             votes |-> r.votes, submitted |-> r.submitted,
             outcome |-> IF r.submitted THEN o ELSE "none",
             lastBefore |-> last_vote_time, fileBefore |-> votes_file,
             returned_at |-> now + r.dt]
       /\ UNCHANGED <<config, namespace, address2name, store, requests, successes,
                      errors, last_sent, last_success, last_sync_time, last_print,
                      stats, pc, order, i, futures, waiting, tasks, trace, key2uid,
                      syncvars, workvars, auxvars>>

\* the seconds a chain call can take before the clock of the model ends
Durations == {d \in {0, 1} : now + d <= InfosMaxAge + MaxVoteTime}

\* vote(save=...) called from outside the loop
DirectVote ==
    /\ \E save \in BOOLEAN, o \in ChainOutcomes, d \in Durations :
           VoteCall("caller", save, o, d)
    /\ UNCHANGED loop

\* vote_loop: c.sleep(sleep_interval)
LoopSleep ==
    /\ loop = "sleep"
    /\ loop' = "vote"
    /\ UNCHANGED <<now, config, namespace, address2name, store, requests, successes,
                   errors, last_sent, last_success, last_sync_time, last_print, stats,
                   pc, order, i, futures, waiting, tasks, trace, hist, key2uid, cache,
                   voteset, last_vote_time, votes_file, chain, vote_trace, syncvars, workvars, auxvars>>

\* where vote_loop goes after its try/except: an exception of vote() is caught
LoopAfterBroken(raised) == IF raised THEN "dead" ELSE "sleep"
LoopAfter(raised) == "sleep"

\* vote_loop: try: r = self.vote() except Exception; c.print(r)
LoopVote ==
    /\ loop = "vote"
    /\ \E o \in ChainOutcomes, d \in Durations :
           /\ VoteCall("loop", TRUE, o, d)
           /\ loop' = LoopAfter(vote(TRUE, o, d).exc # "none")

\* a second passes; the ledger may produce a block
TickChain ==
    /\ now < InfosMaxAge + MaxVoteTime
    /\ now' = now + 1
    /\ \E b \in {0, 1} : chain' = [chain EXCEPT !.block = @ + b]
    /\ UNCHANGED <<config, namespace, address2name, store, requests, successes, errors,
                   last_sent, last_success, last_sync_time, last_print, stats, pc,
                   order, i, futures, waiting, tasks, trace, hist, key2uid, cache,
                   voteset, last_vote_time, votes_file, vote_trace, loop, syncvars, workvars, auxvars>>

\* a record written InfosMaxAge ago, still within the max_age of module_infos
VoteRecord(n, key, w, t) ==
    [present |-> TRUE, name |-> Name(n), address |-> Address(n), key |-> key,
     timestamp |-> t - InfosMaxAge, latency |-> 0, w |-> w]

\* the store votes() reads: k records votes() can take, then at most one it must
\* leave out (a negative score, or an empty key), then nothing
VoteStore(k, extra, t) ==
    [nm \in Names(MaxModules) |->
        IF nm[2] <= k THEN VoteRecord(nm[2], Key(((nm[2] - 1) % MaxKeys) + 1), Scale, t)
        ELSE IF nm[2] = k + 1 /\ extra = "negative"
             THEN VoteRecord(nm[2], Key(1), -Scale, t)
        ELSE IF nm[2] = k + 1 /\ extra = "nokey"
             THEN VoteRecord(nm[2], EmptyKey, Scale, t)
        ELSE NoRecord]

VoteStores(t) ==
    {VoteStore(k, extra, t) : k \in 0..Min2(MaxRecords, MaxModules - 1),
                              extra \in {"none", "negative", "nokey"}}

InitVote ==
    /\ now = InfosMaxAge
    /\ config \in [batch_size : {1}, max_age : {MaxAge}, alpha : {1},
                   print_interval : {1}, network : Networks,
                   vote_interval : 0..MaxInterval,
                   min_num_weights : 1..Min2(MaxRecords, MaxModules)]
    /\ namespace = Namespace(MaxModules)
    /\ address2name = Address2Name(Namespace(MaxModules))
    /\ store \in VoteStores(now)
    /\ requests = 0 /\ successes = 0 /\ errors = 0
    /\ last_sent = 0 /\ last_success = 0 /\ last_sync_time = now /\ last_print = 0
    /\ stats = NoStats
    /\ pc = "idle"
    /\ order = <<>>
    /\ i = 1
    /\ futures = <<>>
    /\ waiting = {}
    /\ tasks = <<>>
    /\ trace = NoTrace
    /\ hist = InitHist(store)
    /\ key2uid \in Ledgers
    /\ cache = <<>>
    /\ voteset = NoVotes
    /\ last_vote_time = 0
    /\ votes_file = NoVotesFile
    /\ chain = [NoChain EXCEPT !.block = MaxInterval]
    /\ vote_trace = NoVoteTrace
    /\ loop = "sleep"
    /\ SyncIdle
    /\ WorkIdle

NextVote ==
    \/ DirectVote
    \/ LoopSleep
    \/ LoopVote
    \/ TickChain

\* the vote loop and callers of vote() over a store earlier evaluations filled
SpecVote == InitVote /\ [][NextVote]_vars

\* the vote loop alone, on a ledger that knows every key
InitLoop ==
    /\ InitVote
    /\ key2uid = [k \in {Key(j) : j \in 1..MaxKeys} |-> k[2]]
    /\ config.vote_interval \in {0, MaxInterval}
    /\ config.min_num_weights = 1

NextLoop ==
    \/ LoopSleep
    \/ LoopVote
    \/ TickChain

\* the vote loop's thread is scheduled again and again
SpecLoop == InitLoop /\ [][NextLoop]_vars /\ WF_vars(LoopSleep) /\ WF_vars(LoopVote)

\* --------------------------------------------------------------- set_network
\* the longest config.sync_interval
MaxSyncInterval == 2

\* if c.time() - self.last_sync_time < self.config.sync_interval
InCoolDown == now - last_sync_time < config.sync_interval

\* set_network() / sync() when the directory would answer found
SetNetwork ==
    \E m \in 1..MaxModules :
        LET found == Namespace(m)
            skip == InCoolDown
            after == IF skip THEN namespace ELSE found
        IN /\ namespace' = after
           /\ self_n' = IF skip THEN self_n ELSE Cardinality(DOMAIN found)
           /\ address2name' = IF skip THEN address2name ELSE Address2Name(found)
           /\ last_sync_time' = IF skip THEN last_sync_time ELSE now
           /\ sync' = [called |-> TRUE, at |-> now, lookup |-> ~skip,
                       found |-> IF skip THEN <<>> ELSE found,
                       before |-> namespace, after |-> after,
                       a2nBefore |-> address2name, a2nAfter |-> address2name',
                       nBefore |-> self_n, nAfter |-> self_n',
                       syncBefore |-> last_sync_time, syncAfter |-> last_sync_time',
                       resolvedBefore |-> sync.resolved_at,
                       resolved_at |-> IF skip THEN sync.resolved_at ELSE now]
           /\ UNCHANGED <<now, config, store, requests, successes, errors, last_sent,
                          last_success, last_print, stats, pc, order, i, futures,
                          waiting, tasks, trace, hist, key2uid, cache, voteset,
                          votevars, snap, workvars, auxvars>>

InitSync ==
    /\ \E n \in 1..MaxModules : InitVali(n)
    /\ config \in [batch_size : {1}, max_age : {MaxAge}, alpha : {1},
                   print_interval : {1}, sync_interval : 1..MaxSyncInterval]

NextSync ==
    \/ SetNetwork
    \/ StartEpoch
    \/ Tick

\* sync() calls and the start of an epoch, as the seconds pass
SpecSync == InitSync /\ [][NextSync]_vars

\* ------------------------------------------------------- epoch, to its end
\* a validator with nothing persisted, about to run an epoch
InitTerm ==
    /\ Init
    /\ store = [nm \in Names(MaxModules) |-> NoRecord]

\* a step of the thread that runs epoch(): a submit, or a wait that ends by a
\* completion or by its timeout, or the end of the loop or of the final drain
EpochStep ==
    \/ Submit
    \/ \E t \in DOMAIN tasks : Drain(t)
    \/ \E t \in DOMAIN tasks : DrainRaises(t)
    \/ WaitTimeout
    \/ LoopEnd
    \/ \E t \in DOMAIN tasks : FinalDrain(t)
    \/ \E t \in DOMAIN tasks : FinalRaises(t)
    \/ FinalTimeout
    \/ FinalReturn

\* one epoch() whose thread keeps running: every wait of it ends.  The tasks
\* themselves need not ever complete.
SpecTerm == InitTerm /\ [][Next]_vars /\ WF_vars(EpochStep)

\* ------------------------------------------------- epoch, as time passes
\* a validator over two modules with nothing persisted, about to run an epoch,
\* that prints as often as the clock allows or less often
InitPrint ==
    /\ InitVali(2)
    /\ store = [nm \in Names(MaxModules) |-> NoRecord]
    /\ config \in [batch_size : 1..MaxBatch, max_age : {MaxAge}, alpha : {1},
                   print_interval : 0..MaxPrintInterval]

NextPrint ==
    \/ Next
    \/ Tick

\* one epoch() that takes several seconds
SpecPrint == InitPrint /\ [][NextPrint]_vars

\* ------------------------------------------------------ concurrent vote loops
\* init_vali of the validator the user constructs, with config.workers = W:
\* start_worker for each worker, then c.thread(self.vote_loop)
init_vali(W) ==
    /\ voters.loops = 0
    /\ voters' = [NoVoters EXCEPT !.loops = 1, !.toBuild = W]
    /\ UNCHANGED <<now, config, namespace, address2name, store, requests, successes,
                   errors, last_sent, last_success, last_sync_time, last_print, stats,
                   pc, order, i, futures, waiting, tasks, trace, hist, key2uid, cache,
                   voteset, votevars, syncvars, workvars, pool, query, evals>>

\* worker(): self = Vali(*args, **kwargs) with workers = 0; its init_vali starts
\* no worker and one more vote loop, for the same key and network
WorkerInitVali ==
    /\ voters.toBuild > 0
    /\ voters' = [voters EXCEPT !.loops = @ + 1, !.toBuild = @ - 1]
    /\ UNCHANGED <<now, config, namespace, address2name, store, requests, successes,
                   errors, last_sent, last_success, last_sync_time, last_print, stats,
                   pc, order, i, futures, waiting, tasks, trace, hist, key2uid, cache,
                   voteset, votevars, syncvars, workvars, pool, query, evals>>

\* vote() in the thread of vote loop v gets past its two guards
VoteGuard(v) ==
    /\ v \in 1..voters.loops
    /\ v \notin voters.passed
    /\ Len(voters.submits) + Cardinality(voters.passed) < MaxSubmits
    /\ ~TooNew
    /\ ~NotVotingNetwork
    /\ voters' = [voters EXCEPT !.passed = @ \cup {v}]
    /\ UNCHANGED <<now, config, namespace, address2name, store, requests, successes,
                   errors, last_sent, last_success, last_sync_time, last_print, stats,
                   pc, order, i, futures, waiting, tasks, trace, hist, key2uid, cache,
                   voteset, votevars, syncvars, workvars, pool, query, evals>>

\* the same thread goes on to c.vote, which the ledger takes
VoteSubmit(v) ==
    /\ v \in voters.passed
    /\ chain' = c_vote(votes, "ok")
    /\ voters' = [voters EXCEPT !.passed = @ \ {v},
                                !.submits = Append(@, [by |-> v, block |-> chain.block])]
    /\ UNCHANGED <<now, config, namespace, address2name, store, requests, successes,
                   errors, last_sent, last_success, last_sync_time, last_print, stats,
                   pc, order, i, futures, waiting, tasks, trace, hist, key2uid, cache,
                   voteset, last_vote_time, votes_file, vote_trace, loop, syncvars,
                   workvars, pool, query, evals>>

NextVoters ==
    \/ \E W \in 1..MaxWorkers : init_vali(W)
    \/ WorkerInitVali
    \/ \E v \in 1..(MaxWorkers + 1) : VoteGuard(v)
    \/ \E v \in 1..(MaxWorkers + 1) : VoteSubmit(v)
    \/ TickChain

\* a validator with workers, and the vote loops that run for its key
SpecVoters == InitLoop /\ [][NextVoters]_vars

\* ------------------------------------------- eval_module, statement by statement
\* The threads of the executor run eval_module of the same module (two names
\* of the namespace on one address, or a module still in flight when the next
\* epoch submits it), and the scheduler may switch between them after any
\* statement.  module.info answers with the name and key of the module.

\* info = self.get_module_info(module); module = c.connect(info['address'])
EvalLoad(t, conn) ==
    /\ evals[t].pc = "start"
    /\ evals' = [evals EXCEPT ![t] =
                    IF conn THEN [@ EXCEPT !.pc = "count", !.connected = TRUE,
                                           !.info = get_module_info(Address(1))]
                    ELSE [@ EXCEPT !.pc = "done"]]
    /\ UNCHANGED <<now, config, namespace, address2name, store, requests, successes,
                   errors, last_sent, last_success, last_sync_time, last_print, stats,
                   pc, order, i, futures, waiting, tasks, trace, hist, key2uid, cache,
                   voteset, votevars, syncvars, workvars, pool, query, voters>>

\* self.requests += 1, first half: the attribute is read
EvalCountRead(t) ==
    /\ evals[t].pc = "count"
    /\ evals' = [evals EXCEPT ![t] = [@ EXCEPT !.pc = "counted", !.req = requests]]
    /\ UNCHANGED <<now, config, namespace, address2name, store, requests, successes,
                   errors, last_sent, last_success, last_sync_time, last_print, stats,
                   pc, order, i, futures, waiting, tasks, trace, hist, key2uid, cache,
                   voteset, votevars, syncvars, workvars, pool, query, voters>>

\* self.requests += 1, second half: the sum is stored
EvalCountWrite(t) ==
    /\ evals[t].pc = "counted"
    /\ requests' = evals[t].req + 1
    /\ evals' = [evals EXCEPT ![t] = [@ EXCEPT !.pc = "check"]]
    /\ UNCHANGED <<now, config, namespace, address2name, store, successes,
                   errors, last_sent, last_success, last_sync_time, last_print, stats,
                   pc, order, i, futures, waiting, tasks, trace, hist, key2uid, cache,
                   voteset, votevars, syncvars, workvars, pool, query, voters>>

\* the freshness test on the info that was loaded; on a stale record
\* module.info is called (it may time out), its reply is merged in and
\* info['timestamp'] = c.time()
EvalStamp(t, inf) ==
    /\ evals[t].pc = "check"
    /\ evals' = [evals EXCEPT ![t] =
                    IF IsFresh(evals[t].info, now, config.max_age) \/ ~inf
                    THEN [@ EXCEPT !.pc = "done"]
                    ELSE [@ EXCEPT !.pc = "score",
                                   !.info = [evals[t].info EXCEPT
                                                !.name = Name(1), !.key = Key(1),
                                                !.timestamp = now]]]
    /\ UNCHANGED <<now, config, namespace, address2name, store, requests, successes,
                   errors, last_sent, last_success, last_sync_time, last_print, stats,
                   pc, order, i, futures, waiting, tasks, trace, hist, key2uid, cache,
                   voteset, votevars, syncvars, workvars, pool, query, voters>>

\* the scoring succeeds with score_module's reply or fails, the blend is taken
\* over the info of this thread, and put_json writes the record; a failed
\* scoring of a module that has no record raises on info['w'] and writes nothing
EvalPut(t, ok) ==
    /\ evals[t].pc = "score"
    /\ LET info == evals[t].info
           chk == check_response(score_module)
           respW == IF ok THEN chk.w ELSE 0
           curW == IF ok THEN chk.w ELSE info.w
       IN IF ok \/ info.present
          THEN /\ store' = [store EXCEPT ![info.name] =
                               [info EXCEPT !.present = TRUE,
                                            !.latency = now - info.timestamp,
                                            !.w = Blend(respW, curW, config.alpha)]]
               /\ evals' = [evals EXCEPT ![t] = [@ EXCEPT !.pc = "done", !.put = TRUE,
                                                           !.failed = ~ok]]
          ELSE /\ store' = store
               /\ evals' = [evals EXCEPT ![t] = [@ EXCEPT !.pc = "done", !.failed = TRUE]]
    /\ UNCHANGED <<now, config, namespace, address2name, requests, successes,
                   errors, last_sent, last_success, last_sync_time, last_print, stats,
                   pc, order, i, futures, waiting, tasks, trace, hist, key2uid, cache,
                   voteset, votevars, syncvars, workvars, pool, query, voters>>

NextRace ==
    \/ \E t \in 1..MaxThreads, conn \in BOOLEAN : EvalLoad(t, conn)
    \/ \E t \in 1..MaxThreads : EvalCountRead(t)
    \/ \E t \in 1..MaxThreads : EvalCountWrite(t)
    \/ \E t \in 1..MaxThreads, inf \in BOOLEAN : EvalStamp(t, inf)
    \/ \E t \in 1..MaxThreads, ok \in BOOLEAN : EvalPut(t, ok)
    \/ Tick

\* concurrent evaluations of one module, as the seconds pass
SpecRace == InitEval /\ [][NextRace]_vars

\* ------------------------------------------------- set_network during epoch
\* a validator with two modules in its namespace and nothing persisted, about
\* to run an epoch, with a sync_interval of one second
InitResync ==
    /\ InitVali(2)
    /\ store = [nm \in Names(MaxModules) |-> NoRecord]
    /\ config \in [batch_size : 1..MaxBatch, max_age : {MaxAge}, alpha : {1},
                   print_interval : {1}, sync_interval : {1}]

\* the steps of an epoch in which no wait times out and no result() raises
NextResync ==
    \/ StartEpoch
    \/ Submit
    \/ \E t \in DOMAIN tasks : RunTask(t)
    \/ \E t \in DOMAIN tasks : Drain(t)
    \/ LoopEnd
    \/ \E t \in DOMAIN tasks : FinalDrain(t)
    \/ FinalReturn
    \/ SetNetwork
    \/ Tick

\* one epoch(), with set_network called from another thread as the seconds pass
SpecResync == InitResync /\ [][NextResync]_vars

\* ------------------------------------------------------- aliased namespaces
\* a resolved namespace of n names whose last two names have one address
AliasNamespace(n) ==
    [nm \in Names(n) |-> IF nm[2] = n THEN Address(Max2(1, n - 1)) ELSE Address(nm[2])]

\* a validator after init_vali over such a namespace, nothing persisted yet
InitAlias ==
    /\ \E n \in 2..MaxModules :
          /\ namespace = AliasNamespace(n)
          /\ address2name = Address2Name(AliasNamespace(n))
    /\ config \in [batch_size : 1..MaxBatch, max_age : 1..MaxAge, alpha : {1},
                   print_interval : {1}]
    /\ store = [nm \in Names(MaxModules) |-> NoRecord]
    /\ now = MaxAge
    /\ requests = 0 /\ successes = 0 /\ errors = 0
    /\ last_sent = 0 /\ last_success = 0 /\ last_sync_time = MaxAge /\ last_print = 0
    /\ stats = NoStats
    /\ pc = "idle"
    /\ order = <<>>
    /\ i = 1
    /\ futures = <<>>
    /\ waiting = {}
    /\ tasks = <<>>
    /\ trace = NoTrace
    /\ hist = InitHist(store)
    /\ key2uid = <<>>
    /\ cache = <<>>
    /\ voteset = NoVotes
    /\ VotingIdle
    /\ SyncIdle
    /\ WorkIdle

\* epoch() run once over a namespace in which two names share an address
SpecAlias == InitAlias /\ [][Next]_vars

\* ===================================================================== claims
\* the tasks epoch() submitted
EpochTasks == {t \in DOMAIN tasks : tasks[t].epoch = hist.epoch}
Undrained == {t \in EpochTasks : ~tasks[t].drained}
TasksHow(how) == Cardinality({t \in EpochTasks : tasks[t].how = how})
Occurrences(seq, x) == Cardinality({j \in 1..Len(seq) : seq[j] = x})

\* the score the last eval_module call found persisted (0 when none was)
TraceOld == IF trace.present THEN trace.oldW ELSE 0

\* every blend the model computes is exact: no score loses digits to the scale
BlendExact ==
    hist.calls < MaxCalls => \A nm \in DOMAIN store : store[nm].w % AlphaDen = 0

\* C1: during an epoch the number of submitted evaluation tasks that have not
\* been drained (the futures list) is at most batch_size.
C1_InFlightAtMostBatch ==
    /\ Len(futures) <= config.batch_size
    /\ Cardinality(Undrained) <= config.batch_size

\* C1 witness: the pool is full while modules are left, with batch_size < N
C1_PoolFullWithModulesLeft ==
    /\ pc = "loop"
    /\ i <= Len(order)
    /\ config.batch_size < Cardinality(DOMAIN namespace)
    /\ Len(futures) = config.batch_size
    /\ Cardinality(Undrained) = config.batch_size

\* C2: when epoch() returns, every module address of the namespace was submitted
\* exactly once and every submitted task was drained.
C2_AllDispatchedAndDrained ==
    hist.returned = 1 =>
        /\ \A j \in 1..Len(order) :
              Cardinality({t \in EpochTasks : tasks[t].module = order[j]})
                  = Occurrences(order, order[j])
        /\ Undrained = {}

\* C3: an eval_module call on a module whose record the previous evaluation of
\* that module persisted less than max_age ago makes no outbound call (no
\* connect, no info fetch, no scoring) and returns the persisted score.
C3_FreshCallMakesNoOutboundCall ==
    (trace.called /\ trace.sameWriter /\ trace.fresh) =>
        /\ ~trace.connected
        /\ ~trace.fetched
        /\ ~trace.scored
        /\ trace.exc = "none"
        /\ trace.retW = trace.oldW

\* C4: a stale evaluation whose scoring succeeds with weight f persists
\* alpha * f + (1 - alpha) * s, s the score persisted before (0 if none).
C4_SuccessPersistsTheAverage ==
    (trace.called /\ trace.put /\ trace.scoreOk) =>
        store[trace.putName].w * AlphaDen
            = trace.f * config.alpha + TraceOld * (AlphaDen - config.alpha)

C7_UnreachableModuleIsZeroWeight ==
    (trace.called /\ trace.unreachable) =>
        /\ trace.exc = "none"
        /\ trace.put
        /\ trace.f = 0

\* C8: no evaluation outcome (an exception in a task, a task that times out, in
\* the loop or in the final drain) makes epoch() raise.
C8_EpochNeverRaises == pc # "raised"

\* C9: after an epoch without a timeout (and, here, without a cache hit: every
\* drained evaluation ran the scoring) successes grew by the number of
\* evaluations whose scoring succeeded and errors by the number of those that
\* failed.
C9_CountersMatchOutcomes ==
    (hist.returned = 1 /\ ~hist.timedOut /\ TasksHow("hit") = 0 /\ Undrained = {}) =>
        /\ successes - hist.s0 = TasksHow("scored")
        /\ errors - hist.e0 = TasksHow("failed")


\* the records votes() must take at time t: fresh, with a key that is not empty
\* and that the ledger knows, and a score >= 0
Votable(t) ==
    {nm \in DOMAIN store :
        /\ store[nm].present
        /\ store[nm].key # NoKey
        /\ store[nm].key # EmptyKey
        /\ t - store[nm].timestamp <= InfosMaxAge
        /\ store[nm].w >= 0
        /\ store[nm].key \in DOMAIN key2uid}

Entries(vs, k, w) ==
    Cardinality({j \in 1..Len(vs.keys) : vs.keys[j] = k /\ vs.weights[j] = w})

VoteSetOk(uids, weights) ==
    /\ Len(uids) = Len(weights)
    /\ \A j \in 1..Len(weights) : weights[j] >= 0

\* every identity of a vote set is a key of the ledger, in its slot
KeysResolved(v) ==
    /\ Len(v.keys) = Len(v.uids)
    /\ \A j \in 1..Len(v.keys) :
          /\ v.keys[j] \in DOMAIN key2uid
          /\ v.uids[j] = key2uid[v.keys[j]]

\* C11: every vote set votes() produced, vote() submitted or save_votes persisted
\* has as many slots as weights and as identities, no negative weight, and only
\* identities the ledger resolved to their slot.
C11_VoteSetsAreWellFormed ==
    /\ VoteSetOk(voteset.uids, voteset.weights) /\ KeysResolved(voteset)
    /\ VoteSetOk(chain.uids, chain.weights)
    /\ vote_trace.submitted =>
          /\ chain.uids = vote_trace.votes.uids
          /\ chain.weights = vote_trace.votes.weights
          /\ KeysResolved(vote_trace.votes)
    /\ votes_file.saved =>
          /\ VoteSetOk(votes_file.votes.uids, votes_file.votes.weights)
          /\ KeysResolved(votes_file.votes)

\* a vote was submitted and persisted while a record with a slot on the ledger
\* carried a negative score
C11_SubmittedWithNegativeRecordAround ==
    /\ chain.sent /\ votes_file.saved
    /\ Len(chain.uids) >= 1
    /\ \E nm \in DOMAIN store :
          /\ store[nm].present /\ store[nm].w < 0
          /\ store[nm].key \in DOMAIN key2uid

\* C12: a vote() call made less than vote_interval after the last_vote_time an
\* earlier submitting call set submits nothing, returns success = False without
\* raising and leaves last_vote_time unchanged.
C12_SecondVoteInsideIntervalRefused ==
    (/\ vote_trace.called
     /\ vote_trace.lastBefore > 0
     /\ vote_trace.at - vote_trace.lastBefore < config.vote_interval)
    => /\ ~vote_trace.submitted
       /\ vote_trace.exc = "none"
       /\ ~vote_trace.success
       /\ last_vote_time = vote_trace.lastBefore

\* C13: when the chain call of vote() raises or returns an unsuccessful result,
\* vote() reports no success, persists nothing and leaves last_vote_time alone.
C13_FailedSubmissionLeavesNoTrace ==
    (/\ vote_trace.called
     /\ vote_trace.submitted
     /\ vote_trace.outcome \in {"rejected", "raises"})
    => /\ ~vote_trace.success
       /\ votes_file = vote_trace.fileBefore
       /\ last_vote_time = vote_trace.lastBefore

C15_PersistedIsSubmitted ==
    (/\ vote_trace.called
     /\ vote_trace.success
     /\ vote_trace.save)
    => /\ load_votes.uids = chain.uids
       /\ load_votes.weights = chain.weights
       /\ load_votes.timestamp = vote_trace.votes.timestamp
       /\ vote_trace.votes.timestamp = vote_trace.at
       /\ last_vote_time = vote_trace.returned_at

\* a saved, successful vote of at least one slot whose chain call took a second
C15_SavedAfterSlowSubmission ==
    /\ vote_trace.called /\ vote_trace.success /\ vote_trace.save
    /\ Len(chain.uids) >= 1
    /\ votes_file.saved
    /\ last_vote_time > vote_trace.votes.timestamp

\* C16: on a network that is neither subspace nor bittensor, vote() submits
\* nothing, does not raise, and its result says 'Not a voting network'.
C16_NonVotingNetworkSaysSo ==
    (vote_trace.called /\ NotVotingNetwork)
    => /\ ~vote_trace.submitted
       /\ vote_trace.exc = "none"
       /\ vote_trace.msg = "Not a voting network"

\* C17: the vote loop never stops: whatever vote() returned or raised, the loop
\* sleeps and calls vote() again, infinitely often.
C17_VoteLoopNeverStops == ([]<>(loop = "vote")) /\ ([]<>(loop = "sleep"))

\* the loop is asleep again after a vote() of its own that raised
C17_LoopSurvivedARaise ==
    /\ vote_trace.called /\ vote_trace.by = "loop"
    /\ vote_trace.exc # "none"
    /\ loop = "sleep"

\* C18: a set_network call made less than sync_interval after the previous
\* namespace resolution does no lookup and leaves namespace, address2name, n and
\* last_sync_time as they were; a call made later replaces the namespace by the
\* mapping the directory resolved.
C18_SyncFollowsCoolDown ==
    sync.called =>
        IF sync.at - sync.resolvedBefore < config.sync_interval
        THEN /\ ~sync.lookup
             /\ sync.after = sync.before
             /\ sync.a2nAfter = sync.a2nBefore
             /\ sync.nAfter = sync.nBefore
             /\ sync.syncAfter = sync.syncBefore
        ELSE /\ sync.lookup
             /\ sync.after = sync.found

\* the tasks a thread of the executor is working on
InFlight == {t \in DOMAIN tasks : tasks[t].st = "running"}

\* C19: at any instant at most one evaluation of a given module name is in
\* flight, also when two names of the namespace map to the same address.
C19_OneEvaluationPerName ==
    \A t1, t2 \in InFlight :
        t1 # t2 => get_module_info(tasks[t1].module).name
                   # get_module_info(tasks[t2].module).name

\* C20: an evaluation of a module with no persisted record that gets as far as
\* the scoring takes the record as score 0 and lastEvaluated 0 (stale), does not
\* fail for want of the record whether the scoring succeeds or fails, and
\* persists a record.
C20_MissingRecordNeverFails ==
    (/\ trace.called
     /\ ~trace.present
     /\ trace.scored)
    => /\ ~trace.fresh
       /\ trace.oldW = 0
       /\ trace.exc # "KeyError"
       /\ (trace.exc = "none" => trace.put)

\* C21: while modules of the namespace are still to be dispatched, a drain
\* submits the next one in the same step, so that whenever the scheduler is back
\* at the head of the loop after a drain the in-flight set holds exactly
\* batch_size tasks.
C21_DrainRefillsThePool ==
    (/\ pc = "loop"
     /\ \E t \in EpochTasks : tasks[t].drained
     /\ Cardinality(EpochTasks) < Len(order))
    => Len(futures) = config.batch_size

\* C22: when the wait for a completed task times out, every task that has not
\* completed leaves the in-flight set in that step (and is counted as an error),
\* so that the pool has room for the modules that follow.
C22_TimedOutTasksLeaveThePool ==
    [][(/\ pc = "loop"
        /\ ~hist.timedOut
        /\ hist'.timedOut)
       => /\ errors' = errors + Cardinality({t \in DOMAIN tasks :
                                                InFutures(t) /\ ~Finished(t)})
          /\ \A t \in DOMAIN tasks :
                (InFutures(t) /\ ~Finished(t))
                => \A j \in 1..Len(futures') : futures'[j] # t]_vars

\* C23: a scoring result that is not a number, a bool or a dict with a numeric
\* 'w' is handled like a failed evaluation: eval_module does not raise, blends a
\* response score of 0 and persists a record with a numeric score.
C23_MalformedResultIsAFailedEvaluation ==
    (trace.called /\ trace.malformed)
    => /\ trace.exc = "none"
       /\ ~trace.scoreOk
       /\ trace.f = 0
       /\ trace.put
       /\ store[trace.putName].w = Blend(0, TraceOld, config.alpha)

\* C24: check_response turns a number n into {'w': n}, True into {'w': 1} and
\* False into {'w': 0}, hands back a dict that has a 'w' key with that 'w'
\* unchanged, and rejects every other value.
C24_CheckResponseNormalises ==
    checked.called =>
        LET r == candidate
            o == checked.out
        IN /\ r.t = "num" => (o.ok /\ o.numeric /\ o.w = r.w * Scale)
           /\ r.t = "bool" => (o.ok /\ o.numeric /\ o.w \in {0, Scale}
                               /\ (o.w = Scale <=> r = BoolReply(TRUE)))
           /\ (r.t = "dict" /\ r.hasW)
                => (o.ok /\ o.numeric = r.numeric /\ o.w = r.w * Scale)
           /\ (r.t = "other" \/ (r.t = "dict" /\ ~r.hasW)) => ~o.ok

C24_DictWithoutWRejected ==
    /\ checked.called
    /\ candidate = DictNoW
    /\ ~checked.out.ok

\* C25: evaluating a module that is neither a name nor an address of the
\* namespace fails as an unknown module: no connection is attempted, no record
\* is persisted and the call ends in an error.
C25_UnknownModuleIsRefused ==
    (trace.called /\ trace.address = NoAddress)
    => /\ ~trace.connected
       /\ ~trace.put
       /\ trace.exc # "none"

\* C26: last_sync_time is advanced only by an actual resolution of the
\* namespace, never by an epoch: it is always the time of the last resolution.
C26_SyncTimeIsLastResolution ==
    last_sync_time = sync.resolved_at

\* C27: every evaluation of an epoch resolves its module against the namespace
\* as it was when the epoch started, also when set_network replaces the
\* namespace meanwhile: what a task in flight resolves to is the name and the
\* address that the snapshot of the start of the epoch gives.
C27_TasksResolveAgainstEpochSnapshot ==
    \A t \in InFlight :
        LET module == tasks[t].module
        IN module \in DOMAIN snap.address2name
           => /\ get_module_info(module).name = snap.address2name[module]
              /\ get_module_info(module).address = module

\* the persisted record that an entry of module_infos was read from is not older
\* than max_age at time t
FromFreshRecord(info, t) ==
    \E nm \in DOMAIN store :
        /\ store[nm].present
        /\ info = [name |-> store[nm].name, w |-> store[nm].w,
                   ss58_address |-> store[nm].key]
        /\ t - store[nm].timestamp <= InfosMaxAge

C29_CacheHitWritesNothing ==
    [][(/\ hist'.calls = hist.calls + 1
        /\ trace'.called
        /\ trace'.present
        /\ now - trace'.oldT < config.max_age)
       => /\ store' = store
          /\ ~trace'.put
          /\ ~trace'.fetched]_vars

C29_CacheHitReturnedTheRecord ==
    /\ trace.called
    /\ trace.present
    /\ trace.fresh
    /\ trace.exc = "none"
    /\ trace.retW = trace.oldW
    /\ store[trace.name].w = trace.oldW
    /\ store[trace.name].timestamp = trace.oldT

\* C30: a worker started with a bounded epochs count E >= 1 runs exactly E
\* complete epochs and then returns; a worker started with epochs = -1 never
\* leaves its loop.  No call of worker() ends in an exception.
C30_WorkerRunsItsEpochs ==
    worker.pc # "none"
    => /\ worker.exc = "none"
       /\ worker.pc = "returned" => worker.completed = worker.epochs
       /\ worker.epochs = -1 => worker.pc = "loop"
       /\ worker.completed = worker.started

\* C31: every epoch over a finite namespace terminates: provided each wait for
\* a completion ends, by a completion or by its timeout, an epoch that has
\* started reaches its end (it returns, or an exception leaves it), for every
\* batch_size.
C31_EpochTerminates ==
    (pc = "loop") ~> (pc \in {"idle", "raised"})

C31_EndedAfterAFullPool ==
    /\ pc \in {"idle", "raised"}
    /\ hist.epoch = 1
    /\ Len(order) > config.batch_size
    /\ i > Len(order)

\* C32: snapshots are emitted at the print interval, not per task: a snapshot
\* is emitted more than print_interval after the one before it, and its
\* 'pending' is the number of tasks in the in-flight list when it is emitted.
C32_SnapshotsAreThrottled ==
    [][last_print' # last_print
       => /\ last_print' = now
          /\ last_print' - last_print > config.print_interval
          /\ stats'.pending = Len(futures')]_vars

C32_SecondSnapshotASecondLater ==
    /\ config.print_interval = 0
    /\ last_print = MaxAge + 1
    /\ stats.last_sent = 1
    /\ stats.successes > 0
    /\ stats.pending = 0

\* C33: on teardown a termination request is issued for every live worker the
\* validator started, in the thread, the process and the server mode, and the
\* wait for their termination has a timeout.
C33_TeardownKillsEveryLiveWorker ==
    pool.torn
    => /\ pool.killed = pool.liveAtDel
       /\ pool.waitTimeout > 0

\* every attempt of the query so far has failed
AllFailed(attempts) == \A k \in 1..Len(attempts) : ~attempts[k]

\* C34: a chain query is attempted at most 3 times in all; when every attempt
\* fails the error reaches the caller after the third, and an attempt that
\* succeeds ends the query with no attempt after it.
C34_AtMostThreeAttempts ==
    /\ Len(query.attempts) <= 3
    /\ query.pc = "try" => AllFailed(query.attempts)
    /\ query.pc = "raised" => (Len(query.attempts) = 3 /\ AllFailed(query.attempts))
    /\ query.pc = "returned"
         => /\ query.attempts[Len(query.attempts)]
            /\ AllFailed(SubSeq(query.attempts, 1, Len(query.attempts) - 1))

C34_ThirdAttemptSucceeded ==
    /\ query.pc = "returned"
    /\ Len(query.attempts) = 3
    /\ query.slept = 6

\* C35: an evaluation of module A writes only the persisted record keyed by the
\* name A has in the namespace, whatever name the remote module reports in its
\* info; the record of every other name is as it was.
C35_EvaluationWritesItsOwnRecord ==
    [][hist'.calls = hist.calls + 1
       => \A nm \in DOMAIN store : nm # trace'.name => store'[nm] = store[nm]]_vars

\* C36: a validator started with workers has exactly one vote loop, no two
\* vote() calls are past the rate-limit guard at once, and two submissions of
\* votes for its key are at least vote_interval blocks apart.
C36_OneVoteLoopAndSpacedSubmissions ==
    /\ voters.loops <= 1
    /\ Cardinality(voters.passed) <= 1
    /\ \A k \in 2..Len(voters.submits) :
          voters.submits[k].block - voters.submits[k - 1].block >= config.vote_interval

\* C37: each submitted task is counted at most once: successes + errors is at
\* most the number of tasks submitted so far, also after timeouts, and requests,
\* successes and errors never decrease.
C37_EachTaskCountedAtMostOnce ==
    /\ [](successes + errors <= Len(tasks))
    /\ [][/\ requests' >= requests
          /\ successes' >= successes
          /\ errors' >= errors]_vars

\* the evaluations that ran to the end of eval_module
EvalsDone == {t \in DOMAIN evals : evals[t].pc = "done"}

\* the record of module 1 after n failed evaluations on top of the score s
RECURSIVE Decayed(_, _)
Decayed(s, n) == IF n = 0 THEN s ELSE Decayed(Blend(0, s, config.alpha), n - 1)

\* C38: the lastEvaluated timestamp of a persisted record never decreases, and
\* no completed stale evaluation's blend is lost, however the evaluations of a
\* module interleave: when all of them have failed their scoring and written,
\* the score has decayed once for each.
C38_TimestampsGrowAndNoBlendIsLost ==
    /\ [][\A nm \in DOMAIN store :
            store[nm].present => store'[nm].timestamp >= store[nm].timestamp]_vars
    /\ []((/\ EvalsDone = DOMAIN evals
           /\ \A t \in DOMAIN evals : evals[t].put /\ evals[t].failed)
          => store[Name(1)].w = Decayed(hist.streak[Name(1)].s0, MaxThreads))

\* C39: the requests counter is the number of evaluations that have passed the
\* connect step, however the evaluation threads interleave: once every thread
\* is through its increment no increment is missing.
C39_NoRequestIsLost ==
    (\A t \in DOMAIN evals : evals[t].pc \in {"start", "check", "score", "done"})
    => requests = Cardinality({t \in DOMAIN evals : evals[t].connected})

====
